---- MODULE Spec2Model ----
(***************************************************************************)
(* Model of checker/testers/cpp2/cpp2.py: the grading strategies of the    *)
(* Cpp2 tester (FlagStrategy, BenchStrategy, ComposeStrategy) and the      *)
(* resolution of a TaskTestConfig to its strategy.                         *)
(*                                                                         *)
(* Strings that the code takes apart (task_type, the content of flag.txt)  *)
(* are sequences of tokens, and str.split / str.splitlines are computed on *)
(* them.  An absent Python attribute or file is the empty set, a present   *)
(* one the singleton of its value.  An exception is a record with its      *)
(* class in "kind" and the fixed part of its message in "text"; a returned *)
(* score is a record of kind "score".  Every lifecycle call is one action; *)
(* the executor calls it made are kept, in order, in last.log.             *)
(***************************************************************************)
EXTENDS Integers, Sequences, FiniteSets

VARIABLES
    args,       \* the arguments TaskTestConfig was constructed with
    submission, \* the submitted tree: flag_txt, the content of
                \* source_dir/flag.txt ({}: no such file); tools, what ninja and
                \* the static checks find in it; report, the document its
                \* relwithdebinfo binary leaves at the report path ({}: none)
    pc,         \* "new" before __post_init__, then "ready" or "invalid"
    ctor,       \* what __post_init__ raised: {} or {exception}
    strategy,   \* test_config.strategy: [compose, parts]
    last        \* the last lifecycle call: [op, outcome, log, ...]

vars == <<args, submission, pc, ctor, strategy, last>>

----------------------------------------------------------------------------
(* Bounds of the model *)

MaxNames == 2      \* mode names in task_type
MaxTests == 2      \* entries of test_config.tests
MaxFileLen == 3    \* tokens in flag.txt
MaxEntries == 2    \* BenchmarkResults entries in a report

----------------------------------------------------------------------------
(* Sequences and strings *)

Range(s) == {s[i] : i \in 1..Len(s)}

SeqsUpTo(S, n) == UNION {[1..k -> S] : k \in 0..n}

\* index of the first occurrence of sep in s, 0 if there is none
IndexOf(s, sep) ==
    IF sep \in Range(s)
    THEN CHOOSE i \in 1..Len(s) : s[i] = sep /\ \A j \in 1..(i - 1) : s[j] # sep
    ELSE 0

\* str.split(sep): the pieces between separators, empty pieces included
RECURSIVE Split(_, _)
Split(s, sep) ==
    LET i == IndexOf(s, sep)
    IN  IF i = 0 THEN <<s>>
        ELSE <<SubSeq(s, 1, i - 1)>> \o Split(SubSeq(s, i + 1, Len(s)), sep)

\* str.splitlines(): lines without their terminators, no line after a final one
RECURSIVE SplitLines(_)
SplitLines(s) ==
    LET i == IndexOf(s, "\n")
    IN  IF s = <<>> THEN <<>>
        ELSE IF i = 0 THEN <<s>>
        ELSE <<SubSeq(s, 1, i - 1)>> \o SplitLines(SubSeq(s, i + 1, Len(s)))

\* sep.join(pieces)
RECURSIVE Join(_, _)
Join(pieces, sep) ==
    IF pieces = <<>> THEN <<>>
    ELSE IF Len(pieces) = 1 THEN pieces[1]
    ELSE pieces[1] \o <<sep>> \o Join(Tail(pieces), sep)

\* str.lower() on the build types of the model
Lower(s) ==
    CASE s = "RelWithDebInfo" -> "relwithdebinfo"
      [] s = "ASAN" -> "asan"
      [] OTHER -> s

\* Path.parent
Parent(p) == IF p = <<>> THEN p ELSE SubSeq(p, 1, Len(p) - 1)

----------------------------------------------------------------------------
(* Exceptions and scores *)

Score(x) == [kind |-> "score", score |-> x]

FullScore == Score(1)

AssertionError(what) == [kind |-> "AssertionError", text |-> what]

RunFailedError(what) == [kind |-> "RunFailedError", text |-> what]

BuildFailedError(binary) ==
    [kind |-> "BuildFailedError", text |-> "Can't build", binary |-> binary]

AttributeError(attr) == [kind |-> "AttributeError", text |-> attr]

Done == [kind |-> "return"]

Raised(o) == o.kind \notin {"score", "return"}

----------------------------------------------------------------------------
(* TaskTestConfig *)

ModeNames == {<<"bench">>, <<"flag">>, <<"gtest">>}

TaskTypes == {Join(ns, ",") : ns \in SeqsUpTo(ModeNames, MaxNames) \ {<<>>}}

TestPairs == {<<"test_x", "ASAN">>, <<"bench_x", "RelWithDebInfo">>}

TestLists == SeqsUpTo(TestPairs, MaxTests)

Answers == {<<>>, <<"a">>, <<"b">>}

MetricNames == {"fast", "slow"}

Thresholds == {-1, 0, 1}

BenchMaps == UNION {[S -> Thresholds] : S \in SUBSET MetricNames}

DefaultTimeout == 180

Timeouts == {DefaultTimeout, 5}

FlagFiles == SeqsUpTo({"a", "b", "\n"}, MaxFileLen)

\* the dataclass defaults of TaskTestConfig, for a given task_type
Defaults(task_type) ==
    [task_type |-> task_type, allow_change |-> <<>>, forbidden |-> <<>>,
     forbidden_files |-> <<>>, tests |-> <<>>, timeout |-> DefaultTimeout,
     bench |-> <<>>, answer |-> <<>>, nolint |-> FALSE,
     lint_files |-> <<"**/*.h", "**/*.cpp">>]

----------------------------------------------------------------------------
(* Strategy resolution and validation *)

NewStrategy(kind) == [kind |-> kind, flag |-> {}, reference_root |-> {}]

\* TaskTestConfig._get_strategy: {} when the name is unknown
GetStrategy(name) ==
    IF name = <<"bench">> THEN {NewStrategy("bench")}
    ELSE IF name = <<"flag">> THEN {NewStrategy("flag")}
    ELSE {}

\* a check_config that asserts nothing
FlagCheckConfig_NoAssert(cfg) == {}

\* FlagStrategy.check_config: what it raises
FlagCheckConfig(cfg) ==
    IF cfg.answer = <<>> THEN {AssertionError("test_config.answer")} ELSE {}

\* a check_config without its second assertion
BenchCheckConfig_TestsOnly(cfg) ==
    IF cfg.tests = <<>> THEN {AssertionError("test_config.tests")} ELSE {}

\* BenchStrategy.check_config: what it raises
BenchCheckConfig(cfg) ==
    IF cfg.tests = <<>> THEN {AssertionError("test_config.tests")}
    ELSE IF cfg.allow_change = <<>> THEN {AssertionError("test_config.allow_change")}
    ELSE {}

PartCheckConfig(part, cfg) ==
    IF part.kind = "bench" THEN BenchCheckConfig(cfg) ELSE FlagCheckConfig(cfg)

\* a composite check_config that asks its first constituent only
ComposeCheckConfig_FirstOnly(parts, cfg) ==
    IF parts = <<>> THEN {} ELSE PartCheckConfig(Head(parts), cfg)

\* ComposeStrategy.check_config: the first constituent's failure, in list order
RECURSIVE ComposeCheckConfig(_, _)
ComposeCheckConfig(parts, cfg) ==
    IF parts = <<>> THEN {}
    ELSE LET e == PartCheckConfig(Head(parts), cfg)
         IN  IF e # {} THEN e ELSE ComposeCheckConfig(Tail(parts), cfg)

CheckConfig(strat, cfg) ==
    IF strat.compose THEN ComposeCheckConfig(strat.parts, cfg)
    ELSE PartCheckConfig(strat.parts[1], cfg)

\* TaskTestConfig._get_compose: the strategies in the order of the names
GetCompose(names) ==
    IF \E i \in 1..Len(names) : GetStrategy(names[i]) = {}
    THEN {}
    ELSE {[compose |-> TRUE,
           parts |-> [i \in 1..Len(names) |-> CHOOSE s \in GetStrategy(names[i]) : TRUE]]}

NoStrategy == [compose |-> FALSE, parts |-> <<>>]

\* TaskTestConfig.__post_init__: the strategy and what was raised
PostInit(cfg) ==
    LET names == Split(cfg.task_type, ",")
        found == IF Len(names) = 1
                 THEN {[compose |-> FALSE, parts |-> <<s>>] : s \in GetStrategy(names[1])}
                 ELSE GetCompose(names)
    IN  IF found = {}
        THEN [strategy |-> NoStrategy, raised |-> {RunFailedError("Unknown strategy")}]
        ELSE LET strat == CHOOSE s \in found : TRUE
             IN  [strategy |-> strat, raised |-> CheckConfig(strat, cfg)]

----------------------------------------------------------------------------
(* gen_build *)

\* the outcome of one call of a strategy: the instance after it, what it
\* returned or raised, and the executor calls it made
Result(part, outcome, log) ==
    [part |-> part, outcome |-> outcome, log |-> log, report |-> {}]

\* the last line instead of the first
FirstLine_Last(content) ==
    LET lines == SplitLines(content)
    IN  IF lines = <<>> THEN <<>> ELSE lines[Len(lines)]

FirstLine(content) ==
    LET lines == SplitLines(content)
    IN  IF lines = <<>> THEN <<>> ELSE lines[1]

\* a gen_build that does not look whether flag.txt exists and reads it as empty
FlagGenBuild_NoExistsCheck(part, src) ==
    IF src = {}
    THEN Result([part EXCEPT !.flag = {<<>>}], Done, <<>>)
    ELSE LET content == CHOOSE c \in src : TRUE
         IN  Result([part EXCEPT !.flag = {FirstLine(content)}], Done, <<>>)

\* a gen_build of the flag mode that records a workspace root as well
FlagGenBuild_WritesRoot(part, src) ==
    IF src = {}
    THEN Result([part EXCEPT !.reference_root = {<<>>}],
                RunFailedError("Can't find flag.txt"), <<>>)
    ELSE LET content == CHOOSE c \in src : TRUE
         IN  Result([part EXCEPT !.flag = {FirstLine(content)},
                                 !.reference_root = {<<>>}], Done, <<>>)

\* FlagStrategy.gen_build
FlagGenBuild(part, src) ==
    IF src = {}
    THEN Result(part, RunFailedError("Can't find flag.txt"), <<>>)
    ELSE LET content == CHOOSE c \in src : TRUE
         IN  Result([part EXCEPT !.flag = {FirstLine(content)}], Done, <<>>)

\* what the tools find in a submission: the index of the first binary ninja
\* fails on (0: none), whether allow_change matched any file of the task
\* directory, whether the task directory holds a header besides, and whether
\* each static check passes
BuildEnvs(cfg) ==
    [failed_build : 1..Len(cfg.tests), matched : {FALSE}, headers : {FALSE},
     format_ok : {TRUE}, tidy_ok : {TRUE}, forbidden_ok : {TRUE}]
    \cup [failed_build : {0}, matched : {FALSE}, headers : BOOLEAN,
          format_ok : BOOLEAN, tidy_ok : {TRUE}, forbidden_ok : {TRUE}]
    \cup [failed_build : {0}, matched : {TRUE}, headers : BOOLEAN, format_ok : BOOLEAN,
          tidy_ok : IF cfg.nolint THEN {TRUE} ELSE BOOLEAN, forbidden_ok : BOOLEAN]

BuildDir(build_type) == <<"build", Lower(build_type)>>

Ninja(root, test) ==
    [cmd |-> "ninja", binary |-> test[1], cwd |-> root \o BuildDir(test[2])]

\* a build loop that goes on after a binary failed to build
BuildLog_All(root, cfg, env) ==
    [i \in 1..Len(cfg.tests) |-> Ninja(root, cfg.tests[i])]

\* the build loop: the ninja calls made, up to the first that fails
BuildLog(root, cfg, env) ==
    LET n == IF env.failed_build = 0 THEN Len(cfg.tests) ELSE env.failed_build
    IN  [i \in 1..n |-> Ninja(root, cfg.tests[i])]

\* the task directory after copy_files: the one source file allow_change
\* matched, and a header
Tree(env) ==
    (IF env.matched THEN {"solution.cpp"} ELSE {})
    \cup (IF env.headers THEN {"solution.h"} ELSE {})

\* task_dir.glob(pattern), on the patterns of the model
Glob(tree, pattern) ==
    LET name == CASE pattern \in {"*.cpp", "**/*.cpp"} -> "solution.cpp"
                  [] pattern \in {"*.h", "**/*.h"} -> "solution.h"
                  [] OTHER -> pattern
    IN  IF name \in tree THEN <<name>> ELSE <<>>

\* the matches of the patterns, concatenated in the order of the patterns
RECURSIVE GlobAll(_, _)
GlobAll(tree, patterns) ==
    IF patterns = <<>> THEN <<>>
    ELSE Glob(tree, Head(patterns)) \o GlobAll(tree, Tail(patterns))

\* what one static check adds: the executor call and the message
NoCheck == [log |-> <<>>, errors |-> <<>>]

Check(cmd, cwd, flags, files, ok, message) ==
    [log |-> <<[cmd |-> cmd, cwd |-> cwd, flags |-> flags, files |-> files]>>,
     errors |-> IF ok THEN <<>> ELSE <<message>>]

\* run-clang-format.py -r over the lint files
FormatCheck(cfg, env, build_dir, files, lint_files) ==
    Check("run-clang-format", build_dir, <<>>, lint_files, env.format_ok,
          "Style error (clang format)")

\* clang-tidy over the lint files, if any file matched and unless nolint
TidyCheck(cfg, env, build_dir, files, lint_files) ==
    IF files # <<>> /\ ~cfg.nolint
    THEN Check("clang-tidy", build_dir, <<>>, lint_files, env.tidy_ok,
               "Style error (clang tidy)")
    ELSE NoCheck

\* the -f and -ff flags of check_forbidden
RECURSIVE Flagged(_, _)
Flagged(flag, rules) ==
    IF rules = <<>> THEN <<>>
    ELSE <<flag, Head(rules)>> \o Flagged(flag, Tail(rules))

\* a scan that nolint switches off together with clang-tidy
ForbiddenCheck_UnlessNolint(cfg, env, root, files, lint_files) ==
    IF files # <<>> /\ ~cfg.nolint
    THEN Check("check_forbidden", root \o <<"build", "relwithdebinfo">>,
               Flagged("-f", cfg.forbidden) \o Flagged("-ff", cfg.forbidden_files),
               files, env.forbidden_ok, "Using of prohibited features")
    ELSE NoCheck

\* check_forbidden over the matched files, if any file matched
ForbiddenCheck(cfg, env, root, files, lint_files) ==
    IF files # <<>>
    THEN Check("check_forbidden", root \o <<"build", "relwithdebinfo">>,
               Flagged("-f", cfg.forbidden) \o Flagged("-ff", cfg.forbidden_files),
               files, env.forbidden_ok, "Using of prohibited features")
    ELSE NoCheck

\* static checks that stop at the first check that fails
StaticChecks_FailFast(root, cfg, env) ==
    LET build_dir == IF cfg.tests = <<>> THEN <<"build_dir">>
                     ELSE root \o BuildDir(cfg.tests[Len(cfg.tests)][2])
        files == GlobAll(Tree(env), cfg.allow_change)
        lint_files == GlobAll(Tree(env), cfg.lint_files)
        format == FormatCheck(cfg, env, build_dir, files, lint_files)
        tidy == IF format.errors # <<>> THEN NoCheck
                ELSE TidyCheck(cfg, env, build_dir, files, lint_files)
        forbidden == IF format.errors \o tidy.errors # <<>> THEN NoCheck
                     ELSE ForbiddenCheck(cfg, env, root, files, lint_files)
    IN  [log |-> format.log \o tidy.log \o forbidden.log,
         errors |-> format.errors \o tidy.errors \o forbidden.errors]

\* the static checks after the build loop: the calls made and the messages
\* collected; build_dir is the one the loop left behind
StaticChecks(root, cfg, env) ==
    LET build_dir == IF cfg.tests = <<>> THEN <<"build_dir">>
                     ELSE root \o BuildDir(cfg.tests[Len(cfg.tests)][2])
        files == GlobAll(Tree(env), cfg.allow_change)
        lint_files == GlobAll(Tree(env), cfg.lint_files)
        format == FormatCheck(cfg, env, build_dir, files, lint_files)
        tidy == TidyCheck(cfg, env, build_dir, files, lint_files)
        forbidden == ForbiddenCheck(cfg, env, root, files, lint_files)
    IN  [log |-> format.log \o tidy.log \o forbidden.log,
         errors |-> format.errors \o tidy.errors \o forbidden.errors]

\* the entries numbered from zero
Numbered_FromZero(errors) ==
    IF Len(errors) > 1
    THEN [i \in 1..Len(errors) |-> [number |-> i - 1, text |-> errors[i]]]
    ELSE [i \in 1..Len(errors) |-> [text |-> errors[i]]]

\* the entries of the raised message: numbered when there is more than one
Numbered(errors) ==
    IF Len(errors) > 1
    THEN [i \in 1..Len(errors) |-> [number |-> i, text |-> errors[i]]]
    ELSE [i \in 1..Len(errors) |-> [text |-> errors[i]]]

StyleError(errors) ==
    [kind |-> "RunFailedError", text |-> "", entries |-> Numbered(errors)]

\* BenchStrategy.gen_build
BenchGenBuild(part, cfg, public_tests_dir, env) ==
    LET root == Parent(public_tests_dir)
        built == [part EXCEPT !.reference_root = {root}]
        copy == <<[cmd |-> "copy_files", target |-> root \o <<"task">>,
                   patterns |-> cfg.allow_change]>>
        builds == BuildLog(root, cfg, env)
        checks == StaticChecks(root, cfg, env)
    IN  IF env.failed_build # 0
        THEN Result(built, BuildFailedError(cfg.tests[env.failed_build][1]),
                    copy \o builds)
        ELSE IF checks.errors = <<>>
        THEN Result(built, Done, copy \o builds \o checks.log)
        ELSE Result(built, StyleError(checks.errors), copy \o builds \o checks.log)

PartGenBuild(part, cfg, src, public_tests_dir, env) ==
    IF part.kind = "bench" THEN BenchGenBuild(part, cfg, public_tests_dir, env)
    ELSE FlagGenBuild(part, src)

\* the call of constituent i, as it shows in the log of a composite call
Call(i, r) ==
    [cmd |-> "strategy", index |-> i, outcome |-> r.outcome, report |-> r.report]

\* a composite gen_build that builds every constituent and then raises the
\* first failure
RECURSIVE ComposeGenBuild_KeepGoing(_, _, _, _, _, _)
ComposeGenBuild_KeepGoing(parts, i, cfg, src, public_tests_dir, env) ==
    IF i > Len(parts) THEN [parts |-> parts, outcome |-> Done, log |-> <<>>]
    ELSE LET r == PartGenBuild(parts[i], cfg, src, public_tests_dir, env)
             after == [parts EXCEPT ![i] = r.part]
             rest == ComposeGenBuild_KeepGoing(after, i + 1, cfg, src,
                                               public_tests_dir, env)
         IN  [rest EXCEPT !.log = r.log \o <<Call(i, r)>> \o rest.log,
                          !.outcome = IF Raised(r.outcome) THEN r.outcome
                                      ELSE rest.outcome]

\* ComposeStrategy.gen_build from constituent i on: in list order, the first
\* failure propagates
RECURSIVE ComposeGenBuild(_, _, _, _, _, _)
ComposeGenBuild(parts, i, cfg, src, public_tests_dir, env) ==
    IF i > Len(parts) THEN [parts |-> parts, outcome |-> Done, log |-> <<>>]
    ELSE LET r == PartGenBuild(parts[i], cfg, src, public_tests_dir, env)
             after == [parts EXCEPT ![i] = r.part]
             log == r.log \o <<Call(i, r)>>
         IN  IF Raised(r.outcome)
             THEN [parts |-> after, outcome |-> r.outcome, log |-> log]
             ELSE LET rest == ComposeGenBuild(after, i + 1, cfg, src,
                                              public_tests_dir, env)
                  IN  [rest EXCEPT !.log = log \o rest.log]

\* test_config.strategy.gen_build, as Cpp2Tester._gen_build calls it
StrategyGenBuild(strat, cfg, src, public_tests_dir, env) ==
    IF strat.compose
    THEN ComposeGenBuild(strat.parts, 1, cfg, src, public_tests_dir, env)
    ELSE LET r == PartGenBuild(strat.parts[1], cfg, src, public_tests_dir, env)
         IN  [parts |-> <<r.part>>, outcome |-> r.outcome,
              log |-> r.log \o <<Call(1, r)>>]

PublicTestsDirs == {<<"course", "tests">>, <<"mirror", "tests">>}

----------------------------------------------------------------------------
(* run_tests *)

TestsFailedError(what) == [kind |-> "TestsFailedError", text |-> what]

\* a message that names the default limit, not the configured one
TimeLimitError_Default(timeout) ==
    [kind |-> "TestsFailedError", text |-> "Your solution exceeded time limit",
     seconds |-> DefaultTimeout]

TimeLimitError(timeout) ==
    [kind |-> "TestsFailedError", text |-> "Your solution exceeded time limit",
     seconds |-> timeout]

WrongFlagError(flag) ==
    [kind |-> "TestsFailedError", text |-> "Wrong flag", flag |-> flag]

BenchError(messages) ==
    [kind |-> "TestsFailedError", text |-> "", entries |-> messages]

FileNotFoundError(path) == [kind |-> "FileNotFoundError", text |-> "", path |-> path]

\* a run_tests that takes a flag never stored for the empty one
FlagRunTests_EmptyDefault(part, cfg) ==
    LET flag == IF part.flag = {} THEN <<>> ELSE CHOOSE f \in part.flag : TRUE
    IN  IF flag = cfg.answer THEN Result(part, FullScore, <<>>)
        ELSE Result(part, WrongFlagError(flag), <<>>)

\* FlagStrategy.run_tests
FlagRunTests(part, cfg) ==
    IF part.flag = {} THEN Result(part, AttributeError("flag"), <<>>)
    ELSE LET flag == CHOOSE f \in part.flag : TRUE
         IN  IF flag = cfg.answer THEN Result(part, FullScore, <<>>)
             ELSE Result(part, WrongFlagError(flag), <<>>)

\* a report holds BenchmarkResults entries: a name and a mean in nanoseconds
NsPerSec == 1000000000

Means == {0, NsPerSec, NsPerSec + 1}

ReportEntries == [name : MetricNames, mean : Means]

Reports == SeqsUpTo(ReportEntries, MaxEntries)

\* the identifiers random.randint draws in the model, out of 0..10**20
RandomIds == {0, 1}

\* what happens in one BenchStrategy.run_tests call: the identifiers
\* random.randint returns, one per iteration, the index of the first binary
\* whose execution does not succeed (0: none) and how it fails
RunEnvs(cfg) ==
    UNION {[rs : [1..k -> RandomIds], failed_run : {k},
            failure : {"TimeoutExpiredError", "ExecutionFailedError"}] :
           k \in 1..Len(cfg.tests)}
    \cup [rs : [1..Len(cfg.tests) -> RandomIds], failed_run : {0}, failure : {"none"}]

\* f'/tmp/{stem}_{r}{ext}'
TmpPath(stem, r, ext) == [dir |-> "/tmp", stem |-> stem, r |-> r, ext |-> ext]

\* the files the four _cat calls of the finally block look for
Cats(r) ==
    <<[cmd |-> "cat", file |-> "report", r |-> r, pattern |-> TmpPath("report", r, ".txt")],
      [cmd |-> "cat", file |-> "ubsan", r |-> r, pattern |-> TmpPath("ubsan", r, ".*")],
      [cmd |-> "cat", file |-> "asan", r |-> r, pattern |-> TmpPath("asan", r, ".*")],
      [cmd |-> "cat", file |-> "tsan", r |-> r, pattern |-> TmpPath("tsan", r, ".*")]>>

\* the executor call of one iteration
Run(root, test, r, timeout, outcome) ==
    [cmd |-> "run", binary |-> test[1], cwd |-> root \o BuildDir(test[2]),
     r |-> r, timeout |-> timeout, outcome |-> outcome,
     xml |-> TmpPath("report", r, ".xml"), console |-> TmpPath("report", r, ".txt"),
     ubsan |-> TmpPath("ubsan", r, ""), asan |-> TmpPath("asan", r, ""),
     tsan |-> TmpPath("tsan", r, "")]

\* an iteration whose diagnostics are shown only when the execution succeeded
Execution_CatOnSuccess(root, test, r, timeout, outcome) ==
    <<Run(root, test, r, timeout, outcome)>>
    \o (IF outcome = "ok" THEN Cats(r) ELSE <<>>)

\* one iteration of the loop: the execution, then the finally block
Execution(root, test, r, timeout, outcome) ==
    <<Run(root, test, r, timeout, outcome)>> \o Cats(r)

RECURSIVE RunLog(_, _, _, _)
RunLog(root, cfg, env, i) ==
    LET n == IF env.failed_run = 0 THEN Len(cfg.tests) ELSE env.failed_run
    IN  IF i > n THEN <<>>
        ELSE Execution(root, cfg.tests[i], env.rs[i], cfg.timeout,
                       IF i = env.failed_run THEN env.failure ELSE "ok")
             \o RunLog(root, cfg, env, i + 1)

\* report_path after the first n iterations: the identifier of the last
\* relwithdebinfo one, {} for None
ReportPath(cfg, env, n) ==
    LET rel == {i \in 1..n : Lower(cfg.tests[i][2]) = "relwithdebinfo"}
    IN  IF rel = {} THEN {}
        ELSE {env.rs[CHOOSE i \in rel : \A j \in rel : j <= i]}

\* ET.parse(report_path), when run_tests gets to it
Parsed(cfg, report_path) ==
    IF DOMAIN cfg.bench = {} THEN <<>>
    ELSE [i \in 1..Cardinality(report_path) |->
             [cmd |-> "parse", path |-> TmpPath("report", CHOOSE r \in report_path : TRUE, ".xml")]]

\* bench_results: the names in the order they were first inserted, each with
\* the mean of its last entry
RECURSIVE BenchResults(_, _)
BenchResults(doc, d) ==
    IF doc = <<>> THEN d
    ELSE LET b == Head(doc)
             keys == IF b.name \in Range(d.keys) THEN d.keys ELSE Append(d.keys, b.name)
             value == [k \in Range(keys) |-> IF k = b.name THEN b.mean ELSE d.value[k]]
         IN  BenchResults(Tail(doc), [keys |-> keys, value |-> value])

EmptyDict == [keys |-> <<>>, value |-> <<>>]

\* time >= threshold instead
TimeAbove_OrEqual(mean, threshold) == mean \div NsPerSec >= threshold

\* time > threshold, for time = mean * 1e-9 and an integer threshold
TimeAbove(mean, threshold) ==
    \/ mean \div NsPerSec > threshold
    \/ mean \div NsPerSec = threshold /\ mean % NsPerSec > 0

\* time < bound, for time = mean * 1e-9 and an integer bound
TimeBelow(mean, bound) == mean \div NsPerSec < bound

\* the message of one metric, if it violates its threshold
Violation(name, mean, threshold) ==
    IF threshold >= 0 /\ TimeAbove(mean, threshold)
    THEN <<[name |-> name, rel |-> ">", mean |-> mean, bound |-> threshold]>>
    ELSE IF threshold < 0 /\ TimeBelow(mean, -threshold)
    THEN <<[name |-> name, rel |-> "<", mean |-> mean, bound |-> -threshold]>>
    ELSE <<>>

RECURSIVE Violations(_, _, _)
Violations(d, bench, i) ==
    IF i > Len(d.keys) THEN <<>>
    ELSE Violation(d.keys[i], d.value[d.keys[i]], bench[d.keys[i]])
         \o Violations(d, bench, i + 1)

\* a name check that lets a report through when it lacks configured metrics
BenchScore_MissingAllowed(cfg, report_path, report) ==
    IF DOMAIN cfg.bench = {} THEN FullScore
    ELSE IF report_path = {} THEN RunFailedError("Cannot find bench result")
    ELSE IF report = {} THEN FileNotFoundError(report_path)
    ELSE LET d == BenchResults(CHOOSE doc \in report : TRUE, EmptyDict)
         IN  IF ~(Range(d.keys) \subseteq DOMAIN cfg.bench)
             THEN RunFailedError("Cannot find bench result")
             ELSE LET messages == Violations(d, cfg.bench, 1)
                  IN  IF messages # <<>> THEN BenchError(messages) ELSE FullScore

\* an end of run_tests that looks for the report even without thresholds
BenchScore_NoShortcut(cfg, report_path, report) ==
    IF report_path = {} THEN RunFailedError("Cannot find bench result")
    ELSE IF report = {} THEN FileNotFoundError(report_path)
    ELSE LET d == BenchResults(CHOOSE doc \in report : TRUE, EmptyDict)
         IN  IF Range(d.keys) # DOMAIN cfg.bench
             THEN RunFailedError("Cannot find bench result")
             ELSE LET messages == Violations(d, cfg.bench, 1)
                  IN  IF messages # <<>> THEN BenchError(messages) ELSE FullScore

\* the end of BenchStrategy.run_tests, once every binary ran
BenchScore(cfg, report_path, report) ==
    IF DOMAIN cfg.bench = {} THEN FullScore
    ELSE IF report_path = {} THEN RunFailedError("Cannot find bench result")
    ELSE IF report = {} THEN FileNotFoundError(report_path)
    ELSE LET d == BenchResults(CHOOSE doc \in report : TRUE, EmptyDict)
         IN  IF Range(d.keys) # DOMAIN cfg.bench
             THEN RunFailedError("Cannot find bench result")
             ELSE LET messages == Violations(d, cfg.bench, 1)
                  IN  IF messages # <<>> THEN BenchError(messages) ELSE FullScore

\* BenchStrategy.run_tests
BenchRunTests(part, cfg, env, written) ==
    IF cfg.tests # <<>> /\ part.reference_root = {}
    THEN Result(part, AttributeError("reference_root"), <<>>)
    ELSE LET root == IF part.reference_root = {} THEN <<>>
                     ELSE CHOOSE p \in part.reference_root : TRUE
             log == RunLog(root, cfg, env, 1)
             report_path == ReportPath(cfg, env, Len(cfg.tests))
             found == IF report_path = {} THEN {} ELSE written
         IN  IF env.failed_run # 0
             THEN Result(part,
                         IF env.failure = "TimeoutExpiredError"
                         THEN TimeLimitError(cfg.timeout)
                         ELSE TestsFailedError("Test failed"),
                         log)
             ELSE [part |-> part, outcome |-> BenchScore(cfg, report_path, found),
                   log |-> log \o Parsed(cfg, report_path), report |-> found]

PartRunTests(part, cfg, env, written) ==
    IF part.kind = "bench" THEN BenchRunTests(part, cfg, env, written)
    ELSE FlagRunTests(part, cfg)

RECURSIVE MinOf(_)
MinOf(scores) ==
    IF Len(scores) = 1 THEN scores[1]
    ELSE LET m == MinOf(Tail(scores))
         IN  IF scores[1] <= m THEN scores[1] ELSE m

\* a composite run_tests that scores a failing constituent 0 and goes on
RECURSIVE ComposeRunTests_Swallow(_, _, _, _, _, _)
ComposeRunTests_Swallow(parts, i, cfg, envs, written, scores) ==
    IF i > Len(parts) THEN [outcome |-> Score(MinOf(scores)), log |-> <<>>]
    ELSE LET r == PartRunTests(parts[i], cfg, envs[i], written)
             rest == ComposeRunTests_Swallow(
                         parts, i + 1, cfg, envs, written,
                         Append(scores, IF Raised(r.outcome) THEN 0 ELSE r.outcome.score))
         IN  [rest EXCEPT !.log = r.log \o <<Call(i, r)>> \o rest.log]

\* ComposeStrategy.run_tests from constituent i on: the list of the scores
\* is built in list order, the first failure propagates, then min is taken
RECURSIVE ComposeRunTests(_, _, _, _, _, _)
ComposeRunTests(parts, i, cfg, envs, written, scores) ==
    IF i > Len(parts) THEN [outcome |-> Score(MinOf(scores)), log |-> <<>>]
    ELSE LET r == PartRunTests(parts[i], cfg, envs[i], written)
             log == r.log \o <<Call(i, r)>>
         IN  IF Raised(r.outcome) THEN [outcome |-> r.outcome, log |-> log]
             ELSE LET rest == ComposeRunTests(parts, i + 1, cfg, envs, written,
                                              Append(scores, r.outcome.score))
                  IN  [rest EXCEPT !.log = log \o rest.log]

\* test_config.strategy.run_tests, as Cpp2Tester._run_tests calls it
StrategyRunTests(strat, cfg, envs, written) ==
    IF strat.compose THEN ComposeRunTests(strat.parts, 1, cfg, envs, written, <<>>)
    ELSE LET r == PartRunTests(strat.parts[1], cfg, envs[1], written)
         IN  [outcome |-> r.outcome, log |-> r.log \o <<Call(1, r)>>]

----------------------------------------------------------------------------
(* clean_build *)

\* BenchStrategy.clean_build removes the build directory, FlagStrategy's does
\* nothing
PartCleanBuild(part) ==
    IF part.kind = "bench" THEN <<[cmd |-> "rm", check |-> FALSE]>> ELSE <<>>

RECURSIVE StrategyCleanBuild(_, _)
StrategyCleanBuild(parts, i) ==
    IF i > Len(parts) THEN <<>>
    ELSE PartCleanBuild(parts[i]) \o StrategyCleanBuild(parts, i + 1)

----------------------------------------------------------------------------
(* State machine *)

NoCall == [op |-> "none"]

Configs ==
    {[Defaults(t) EXCEPT !.tests = ts, !.allow_change = ac, !.answer = an] :
        t \in TaskTypes, ts \in TestLists, ac \in {<<>>, <<"*.cpp">>}, an \in Answers}

Built(task_type) ==
    [Defaults(task_type) EXCEPT !.tests = <<<<"bench_x", "RelWithDebInfo">>>>,
                                !.allow_change = <<"*.cpp">>,
                                !.forbidden = <<"goto">>,
                                !.forbidden_files = <<"main.cpp">>]

AllPass == [failed_build |-> 0, matched |-> TRUE, headers |-> FALSE,
            format_ok |-> TRUE, tidy_ok |-> TRUE, forbidden_ok |-> TRUE]

World(cfg, flag_txt, tools, rep) ==
    [args |-> cfg,
     submission |-> [flag_txt |-> flag_txt, tools |-> tools, report |-> rep]]

\* every task_type, tests, allow_change and answer
ConfigWorlds == {World(c, {}, AllPass, {}) : c \in Configs}

Resubmitted == {{}, {<<"a">>}, {<<"b", "\n", "a">>}}

\* every flag.txt and answer, for the flag mode alone
FlagWorlds ==
    {World([Defaults(<<"flag">>) EXCEPT !.answer = an], src, AllPass, {}) :
        an \in Answers, src \in {{}} \cup {{f} : f \in FlagFiles}}

\* every task_type, with or without an answer and a binary, that builds or not
ComposeWorlds ==
    {World([Defaults(t) EXCEPT !.answer = an, !.tests = ts,
                               !.allow_change = <<"*.cpp">>], src, tools, {}) :
        t \in TaskTypes, an \in {<<>>, <<"a">>},
        ts \in {<<>>, <<<<"bench_x", "RelWithDebInfo">>>>}, src \in Resubmitted,
        tools \in {AllPass, [AllPass EXCEPT !.format_ok = FALSE]}}

\* every list of binaries and nolint, with everything the tools can find
BuildWorlds ==
    UNION {{World(c, {}, tools, {}) : tools \in BuildEnvs(c)} :
           c \in {[Built(<<"bench">>) EXCEPT !.tests = ts, !.nolint = nl] :
                    ts \in TestLists \ {<<>>}, nl \in BOOLEAN}}

\* every list of binaries and timeout, without and with a threshold and a
\* report
TestsWorlds ==
    {World([Built(<<"bench">>) EXCEPT !.tests = ts, !.timeout = t], {}, AllPass, {}) :
        ts \in TestLists \ {<<>>}, t \in Timeouts}
    \cup
    {World([Built(<<"bench">>) EXCEPT !.tests = ts, !.bench = [n \in {"fast"} |-> 1]],
           {}, AllPass, rep) :
        ts \in TestLists \ {<<>>},
        rep \in {{}, {<<[name |-> "fast", mean |-> 0]>>},
                 {<<[name |-> "slow", mean |-> 0]>>}}}

\* every set of thresholds and every report, for one benchmark binary
BenchWorlds ==
    {World([Built(<<"bench">>) EXCEPT !.bench = b], {}, AllPass, rep) :
        b \in BenchMaps, rep \in {{}} \cup {{d} : d \in Reports}}

Worlds ==
    FlagWorlds \cup ComposeWorlds \cup BuildWorlds \cup TestsWorlds \cup BenchWorlds

\* the environments of the constituents' calls, one per constituent
RECURSIVE EnvSeqs(_, _, _)
EnvSeqs(parts, bench_envs, i) ==
    IF i > Len(parts) THEN {<<>>}
    ELSE {<<e>> \o rest :
            e \in IF parts[i].kind = "bench" THEN bench_envs ELSE {<<>>},
            rest \in EnvSeqs(parts, bench_envs, i + 1)}

Start(worlds) ==
    /\ \E w \in worlds : args = w.args /\ submission = w.submission
    /\ pc = "new"
    /\ ctor = {}
    /\ strategy = NoStrategy
    /\ last = NoCall

Init == Start(Worlds)

InitConfig == Start(ConfigWorlds)

\* TaskTestConfig(...): the dataclass __init__ followed by __post_init__
Construct ==
    /\ pc = "new"
    /\ LET r == PostInit(args)
       IN  /\ ctor' = r.raised
           /\ strategy' = r.strategy
           /\ pc' = IF r.raised = {} THEN "ready" ELSE "invalid"
    /\ UNCHANGED <<args, submission, last>>

\* Cpp2Tester._gen_build
GenBuild ==
    /\ pc = "ready"
    /\ \E public_tests_dir \in PublicTestsDirs :
          LET r == StrategyGenBuild(strategy, args, submission.flag_txt,
                                    public_tests_dir, submission.tools)
          IN  /\ strategy' = [strategy EXCEPT !.parts = r.parts]
              /\ last' = [op |-> "gen_build", outcome |-> r.outcome, log |-> r.log]
    /\ UNCHANGED <<args, submission, pc, ctor>>

\* Cpp2Tester._run_tests
RunTests ==
    /\ pc = "ready"
    /\ \E envs \in EnvSeqs(strategy.parts, RunEnvs(args), 1) :
          LET r == StrategyRunTests(strategy, args, envs, submission.report)
          IN  last' = [op |-> "run_tests", outcome |-> r.outcome, log |-> r.log]
    /\ UNCHANGED <<args, submission, pc, ctor, strategy>>

\* Cpp2Tester._clean_build
CleanBuild ==
    /\ pc = "ready"
    /\ last' = [op |-> "clean_build", outcome |-> Done,
                log |-> StrategyCleanBuild(strategy.parts, 1)]
    /\ UNCHANGED <<args, submission, pc, ctor, strategy>>

\* a new submission replaces source_dir/flag.txt, or lacks it
Submit ==
    /\ pc = "ready"
    /\ \E i \in 1..Len(strategy.parts) : strategy.parts[i].kind = "flag"
    /\ \E f \in Resubmitted \ {submission.flag_txt} :
          submission' = [submission EXCEPT !.flag_txt = f]
    /\ UNCHANGED <<args, pc, ctor, strategy, last>>

Next == Construct \/ GenBuild \/ RunTests \/ CleanBuild \/ Submit

NextConfig == Construct

Spec == Init /\ [][Next]_vars

SpecConfig == InitConfig /\ [][NextConfig]_vars

----------------------------------------------------------------------------
(* Validation: C4, C5, C6 *)

Names == Split(args.task_type, ",")

Constructed == pc # "new"

Invocable == ENABLED GenBuild \/ ENABLED RunTests

\* C4: for a configuration of task_type 'bench', validation fails (with an
\* AssertionError) iff tests is empty or allow_change is empty, and gen_build
\* or run_tests can be invoked only on one where neither is empty.
C4_BenchValidation ==
    Names = <<<<"bench">>>> =>
        /\ Constructed =>
              /\ ctor # {} <=> (args.tests = <<>> \/ args.allow_change = <<>>)
              /\ \A e \in ctor : e.kind = "AssertionError"
        /\ Invocable => (args.tests # <<>> /\ args.allow_change # <<>>)

C4_Witness ==
    /\ pc = "invalid"
    /\ Names = <<<<"bench">>>>
    /\ args.tests # <<>>
    /\ args.allow_change = <<>>
    /\ ctor = {AssertionError("test_config.allow_change")}

\* C5: for a configuration of task_type 'flag', validation fails (with an
\* AssertionError) iff answer is empty.
C5_FlagValidation ==
    (Names = <<<<"flag">>>> /\ Constructed) =>
        /\ ctor # {} <=> args.answer = <<>>
        /\ \A e \in ctor : e.kind = "AssertionError"

C5_Witness ==
    /\ pc = "invalid"
    /\ Names = <<<<"flag">>>>
    /\ args.answer = <<>>
    /\ ctor = {AssertionError("test_config.answer")}

Orders(n) ==
    {p \in [1..n -> 1..n] : \A i, j \in 1..n : p[i] = p[j] => i = j}

Permuted(names, p) == [i \in 1..Len(names) |-> names[p[i]]]

\* the configuration a constituent alone would be validated as
Alone(name) == [args EXCEPT !.task_type = name]

\* C6: when task_type names two or more known modes, validation fails iff the
\* validation of at least one of the modes fails on the same configuration,
\* and it fails for every order of the names or for none.
C6_ComposeValidation ==
    (Constructed /\ strategy.compose) =>
        /\ ctor # {} <=> \E i \in 1..Len(Names) : PostInit(Alone(Names[i])).raised # {}
        /\ \A p \in Orders(Len(Names)) :
              PostInit([args EXCEPT !.task_type = Join(Permuted(Names, p), ",")]).raised # {}
              <=> ctor # {}

C6_Witness ==
    /\ pc = "invalid"
    /\ Names = <<<<"bench">>, <<"flag">>>>
    /\ strategy.compose
    /\ PostInit(Alone(<<"bench">>)).raised = {}
    /\ PostInit(Alone(<<"flag">>)).raised # {}
    /\ ctor # {}

----------------------------------------------------------------------------
(* The flag mode: C7, C8 *)

\* the steps that are a gen_build call, and those that are a run_tests call
GenBuildStep ==
    pc = "ready" /\ pc' = "ready" /\ submission' = submission /\ last'.op = "gen_build"

RunTestsStep ==
    pc = "ready" /\ pc' = "ready" /\ submission' = submission /\ last'.op = "run_tests"

SingleFlag == ~strategy.compose /\ Len(strategy.parts) = 1 /\ strategy.parts[1].kind = "flag"

\* v is content up to its first line terminator, or all of it if it has none
IsFirstLineOf(v, content) ==
    /\ Len(v) <= Len(content)
    /\ v = SubSeq(content, 1, Len(v))
    /\ "\n" \notin Range(v)
    /\ Len(v) = Len(content) \/ content[Len(v) + 1] = "\n"

FullyScored(o) == o.kind = "score" /\ o.score = 1

\* C7: with the flag mode alone, a gen_build that finds flag.txt stores its
\* first line (the empty value for an empty file), and a run_tests on a stored
\* value returns 1.0 iff the value equals the configured answer and otherwise
\* raises a TestsFailedError that carries the stored value.
C7_FlagFirstLine ==
    [][SingleFlag =>
        /\ (GenBuildStep /\ submission.flag_txt # {}) =>
              /\ last'.outcome.kind = "return"
              /\ \E v \in strategy'.parts[1].flag :
                    /\ strategy'.parts[1].flag = {v}
                    /\ \A c \in submission.flag_txt : IsFirstLineOf(v, c)
        /\ (RunTestsStep /\ strategy.parts[1].flag # {}) =>
              \A v \in strategy.parts[1].flag :
                 /\ FullyScored(last'.outcome) <=> v = args.answer
                 /\ v # args.answer =>
                       /\ last'.outcome.kind = "TestsFailedError"
                       /\ last'.outcome.text = "Wrong flag"
                       /\ last'.outcome.flag = v]_vars

C7_Witness ==
    /\ SingleFlag
    /\ submission.flag_txt = {<<"a", "\n", "b">>}
    /\ strategy.parts[1].flag = {<<"a">>}
    /\ args.answer = <<"b">>
    /\ last.op = "run_tests"
    /\ last.outcome = WrongFlagError(<<"a">>)

IsCall(e) == e.cmd = "strategy"

Calls(log) == SelectSeq(log, IsCall)

\* the constituents a call of the strategy called that are of the given kind
Called(log, kind) ==
    {i \in 1..Len(strategy.parts) :
        /\ strategy.parts[i].kind = kind
        /\ \E k \in 1..Len(log) : IsCall(log[k]) /\ log[k].index = i}

\* C8: a gen_build in which FlagStrategy.gen_build is called while flag.txt
\* is absent raises the failure of that constituent, a RunFailedError raised
\* in the build phase, and stores no submitted value: every stored flag is the
\* one stored before the call.
C8_MissingFlagFile ==
    [][(GenBuildStep /\ submission.flag_txt = {} /\ Called(last'.log, "flag") # {}) =>
        /\ last'.outcome = RunFailedError("Can't find flag.txt")
        /\ last'.log[Len(last'.log)].index \in Called(last'.log, "flag")
        /\ \A i \in 1..Len(strategy.parts) :
              strategy'.parts[i].flag = strategy.parts[i].flag]_vars

C8_Witness ==
    /\ SingleFlag
    /\ submission.flag_txt = {}
    /\ last.op = "gen_build"
    /\ last.outcome = RunFailedError("Can't find flag.txt")
    /\ strategy.parts[1].flag = {<<"a">>}

----------------------------------------------------------------------------
(* The bench mode, build and execution: C9, C10 *)

SingleBench ==
    ~strategy.compose /\ Len(strategy.parts) = 1 /\ strategy.parts[1].kind = "bench"

\* the static checks that ran and failed in a gen_build on this submission
Checked == submission.tools.failed_build = 0

FormatFailed == Checked /\ ~submission.tools.format_ok

TidyFailed ==
    Checked /\ submission.tools.matched /\ ~args.nolint /\ ~submission.tools.tidy_ok

ForbiddenFailed ==
    Checked /\ submission.tools.matched /\ ~submission.tools.forbidden_ok

FormatEntry(n) == [number |-> n, text |-> "Style error (clang format)"]

TidyEntry(n) == [number |-> n, text |-> "Style error (clang tidy)"]

ForbiddenEntry(n) == [number |-> n, text |-> "Using of prohibited features"]

BenchBuilt == last.op = "gen_build" /\ SingleBench

\* C9 as stated: whenever the format check and the forbidden-construct check
\* both fail, the raised message has exactly the two entries "1) <format>"
\* and "2) <forbidden>".
C9_Original ==
    (BenchBuilt /\ FormatFailed /\ ForbiddenFailed) =>
        /\ last.outcome.kind = "RunFailedError"
        /\ last.outcome.entries = <<FormatEntry(1), ForbiddenEntry(2)>>

\* C9, amended: when the format check and the forbidden-construct check both
\* fail, the raised RunFailedError has exactly the two entries "1) <format>"
\* and "2) <forbidden>" provided the clang-tidy check did not fail as well
\* (it passed, or nolint is set); when it failed too the entries are three,
\* "1) <format>", "2) <tidy>", "3) <forbidden>".
C9_FormatAndForbidden ==
    (BenchBuilt /\ FormatFailed /\ ForbiddenFailed) =>
        /\ last.outcome.kind = "RunFailedError"
        /\ last.outcome.entries =
              IF TidyFailed THEN <<FormatEntry(1), TidyEntry(2), ForbiddenEntry(3)>>
              ELSE <<FormatEntry(1), ForbiddenEntry(2)>>

C9_Witness ==
    /\ BenchBuilt
    /\ FormatFailed /\ ForbiddenFailed /\ ~TidyFailed
    /\ ~args.nolint
    /\ last.outcome.kind = "RunFailedError"
    /\ Len(last.outcome.entries) = 2
    /\ last.outcome.entries[2] = ForbiddenEntry(2)

\* the executions of test binaries in a log that ended with the given outcome
Ended(log, outcome) ==
    {k \in 1..Len(log) : log[k].cmd = "run" /\ log[k].outcome = outcome}

\* C10: when the execution of a binary in run_tests times out, run_tests
\* raises a TestsFailedError that carries the configured timeout; when it
\* fails, run_tests raises a TestsFailedError; run_tests never raises a
\* TimeoutExpiredError or an ExecutionFailedError.
C10_ExecutionFailures ==
    last.op = "run_tests" =>
        /\ last.outcome.kind \notin {"TimeoutExpiredError", "ExecutionFailedError"}
        /\ Ended(last.log, "TimeoutExpiredError") # {} =>
              /\ last.outcome.kind = "TestsFailedError"
              /\ last.outcome.text = "Your solution exceeded time limit"
              /\ last.outcome.seconds = args.timeout
        /\ Ended(last.log, "ExecutionFailedError") # {} =>
              /\ last.outcome.kind = "TestsFailedError"
              /\ last.outcome.text = "Test failed"

C10_Witness ==
    /\ last.op = "run_tests"
    /\ args.timeout = 5
    /\ Len(args.tests) = 2
    /\ Ended(last.log, "ok") # {}
    /\ Ended(last.log, "TimeoutExpiredError") # {}
    /\ last.outcome.kind = "TestsFailedError"
    /\ last.outcome.seconds = 5

----------------------------------------------------------------------------
(* Scores: C1, C2, C3 *)

\* C1: a composite run_tests calls its constituents in list order up to the
\* first that raises; if one raises, the composite raises that failure and
\* returns no score; otherwise every constituent was called and the composite
\* returns the minimum of their scores.
C1_ComposeMinimum ==
    (last.op = "run_tests" /\ strategy.compose) =>
        LET calls == Calls(last.log)
            n == Len(calls)
        IN  /\ n >= 1
            /\ \A j \in 1..n : calls[j].index = j
            /\ \A j \in 1..(n - 1) : ~Raised(calls[j].outcome)
            /\ \A j \in 1..n :
                  strategy.parts[j].kind = "flag" =>
                     IF strategy.parts[j].flag = {}
                     THEN calls[j].outcome.kind = "AttributeError"
                     ELSE FullyScored(calls[j].outcome)
                          <=> strategy.parts[j].flag = {args.answer}
            /\ IF Raised(calls[n].outcome)
               THEN last.outcome = calls[n].outcome
               ELSE /\ n = Len(strategy.parts)
                    /\ last.outcome.kind = "score"
                    /\ \E j \in 1..n : last.outcome.score = calls[j].outcome.score
                    /\ \A j \in 1..n : last.outcome.score <= calls[j].outcome.score

C1_Witness ==
    /\ last.op = "run_tests"
    /\ strategy.compose
    /\ Len(strategy.parts) = 2
    /\ strategy.parts[1].kind = "bench"
    /\ Len(Calls(last.log)) = 2
    /\ FullyScored(Calls(last.log)[1].outcome)
    /\ Calls(last.log)[2].outcome.kind = "TestsFailedError"
    /\ last.outcome.kind = "TestsFailedError"
    /\ last.outcome.text = "Wrong flag"

\* the report a single bench strategy found at report_path after every
\* binary ran, in the last call
Found == last.log[Len(last.log)].report

ReportNames(doc) == {doc[i].name : i \in 1..Len(doc)}

\* the mean the report gives for a metric: that of its last entry
Measured(doc, name) ==
    doc[CHOOSE i \in 1..Len(doc) :
            doc[i].name = name /\ \A j \in (i + 1)..Len(doc) : doc[j].name # name].mean

\* v <= t for t >= 0, v >= -t for t < 0, with v = mean / 10^9 seconds
Passes(mean, t) ==
    \/ t >= 0 /\ mean <= t * NsPerSec
    \/ t < 0 /\ mean >= (-t) * NsPerSec

BenchRan == last.op = "run_tests" /\ SingleBench /\ Found # {}

\* C2: when run_tests compares the metrics of the report with the thresholds,
\* it returns 1.0 iff every metric passes, a metric with value v and threshold
\* t passing iff (t >= 0 and v <= t) or (t < 0 and v >= -t); otherwise it
\* raises a TestsFailedError with exactly one entry for every metric that
\* does not pass.
C2_Thresholds ==
    \A doc \in (IF BenchRan THEN Found ELSE {}) :
        (DOMAIN args.bench # {} /\ ReportNames(doc) = DOMAIN args.bench) =>
            LET failing == {m \in DOMAIN args.bench :
                               ~Passes(Measured(doc, m), args.bench[m])}
            IN  /\ FullyScored(last.outcome) <=> failing = {}
                /\ failing # {} =>
                      /\ last.outcome.kind = "TestsFailedError"
                      /\ Len(last.outcome.entries) = Cardinality(failing)
                      /\ {e.name : e \in Range(last.outcome.entries)} = failing
                      /\ \A e \in Range(last.outcome.entries) :
                            /\ e.mean = Measured(doc, e.name)
                            /\ e.rel = IF args.bench[e.name] >= 0 THEN ">" ELSE "<"

C2_Witness ==
    /\ BenchRan
    /\ args.bench = [m \in {"fast", "slow"} |-> IF m = "fast" THEN 1 ELSE -1]
    /\ Found = {<<[name |-> "slow", mean |-> 0], [name |-> "fast", mean |-> NsPerSec + 1]>>}
    /\ last.outcome.kind = "TestsFailedError"
    /\ Len(last.outcome.entries) = 2

NamesDiffer == \E doc \in Found : ReportNames(doc) # DOMAIN args.bench

CannotFind(o) == o.kind = "RunFailedError" /\ o.text = "Cannot find bench result"

\* C3 as stated: whenever the names of the report differ from the names of
\* the configured thresholds, run_tests raises the "cannot find bench result"
\* RunFailedError.
C3_Original == (BenchRan /\ NamesDiffer) => CannotFind(last.outcome)

\* C3, amended: when at least one threshold is configured and the names of
\* the report differ from the names of the configured thresholds, run_tests
\* raises the "cannot find bench result" RunFailedError whatever the values;
\* when no threshold is configured it returns 1.0 whatever the report holds.
C3_NameMismatch ==
    (BenchRan /\ NamesDiffer) =>
        IF DOMAIN args.bench # {} THEN CannotFind(last.outcome)
        ELSE FullyScored(last.outcome)

C3_Witness ==
    /\ BenchRan
    /\ args.bench = [m \in {"fast"} |-> 1]
    /\ Found = {<<[name |-> "fast", mean |-> 0], [name |-> "slow", mean |-> 0]>>}
    /\ CannotFind(last.outcome)

----------------------------------------------------------------------------
(* The bench mode, the execution loop: C11, C12, C15 *)

IsRun(e) == e.cmd = "run"

\* the executions of test binaries in a log, in order
Runs(log) == SelectSeq(log, IsRun)

IsParse(e) == e.cmd = "parse"

\* the reads of the benchmark report in a log
Parses(log) == SelectSeq(log, IsParse)

BenchTested == last.op = "run_tests" /\ SingleBench

\* every entry of tests was executed, in order, and succeeded
AllExecuted(log) ==
    /\ Len(Runs(log)) = Len(args.tests)
    /\ \A k \in 1..Len(args.tests) :
          /\ Runs(log)[k].binary = args.tests[k][1]
          /\ Runs(log)[k].outcome = "ok"

\* C11: when no benchmark metric is configured, run_tests of the bench mode
\* returns 1.0 iff every (binary, variant) entry of tests was executed and
\* succeeded, whichever variants tests lists, and it never reads the report.
C11_NoMetrics ==
    (BenchTested /\ DOMAIN args.bench = {}) =>
        /\ FullyScored(last.outcome) <=> AllExecuted(last.log)
        /\ Parses(last.log) = <<>>

C11_Witness ==
    /\ BenchTested
    /\ DOMAIN args.bench = {}
    /\ args.tests = <<<<"test_x", "ASAN">>, <<"test_x", "ASAN">>>>
    /\ AllExecuted(last.log)
    /\ FullyScored(last.outcome)

\* the report and log paths one execution is given
Paths(e) == {e.xml, e.console, e.ubsan, e.asan, e.tsan}

\* C12: the report and log paths of two distinct executions of one run_tests
\* call never collide.
C12_DistinctPaths ==
    BenchTested =>
        \A j, k \in 1..Len(Runs(last.log)) :
            j # k => Paths(Runs(last.log)[j]) \cap Paths(Runs(last.log)[k]) = {}

IsShown(e) == e.cmd \in {"run", "cat"}

\* the executions and the diagnostics shown, in order
Shown(log) == SelectSeq(log, IsShown)

\* the position of the k-th execution when each is followed by its four
\* concatenations
At(k) == 5 * (k - 1) + 1

\* C15: in run_tests of the bench mode the binaries are executed in the order
\* of tests; each execution is followed at once, whether it succeeded or not,
\* by the concatenation of the report and sanitizer logs of its identifier,
\* before the next binary starts; an execution that fails is the last one
\* (no later entry is executed) and run_tests raises after its concatenation.
C15_FailFastWithDiagnostics ==
    BenchTested =>
        LET shown == Shown(last.log)
            n == Len(Runs(last.log))
        IN  /\ n <= Len(args.tests)
            /\ Len(shown) = 5 * n
            /\ \A k \in 1..n :
                  /\ shown[At(k)].cmd = "run"
                  /\ shown[At(k)].binary = args.tests[k][1]
                  /\ <<shown[At(k) + 1].file, shown[At(k) + 2].file,
                       shown[At(k) + 3].file, shown[At(k) + 4].file>>
                     = <<"report", "ubsan", "asan", "tsan">>
                  /\ \A c \in 1..4 :
                        /\ shown[At(k) + c].cmd = "cat"
                        /\ shown[At(k) + c].r = shown[At(k)].r
                  /\ k < n => shown[At(k)].outcome = "ok"
            /\ (n >= 1 /\ shown[At(n)].outcome # "ok") =>
                  /\ last.outcome.kind = "TestsFailedError"
                  /\ Parses(last.log) = <<>>
            /\ (n >= 1 /\ shown[At(n)].outcome = "ok") => n = Len(args.tests)

C15_Witness ==
    /\ BenchTested
    /\ Len(args.tests) = 2
    /\ Len(Runs(last.log)) = 1
    /\ Len(Shown(last.log)) = 5
    /\ Shown(last.log)[1].outcome = "ExecutionFailedError"
    /\ Shown(last.log)[5].cmd = "cat"
    /\ last.outcome = TestsFailedError("Test failed")

----------------------------------------------------------------------------
(* The bench mode, the build and the static checks: C13, C16, C20 *)

\* the positions of the calls of a command in a log
Events(log, cmd) == {k \in 1..Len(log) : log[k].cmd = cmd}

StaticCmds == {"run-clang-format", "clang-tidy", "check_forbidden"}

\* the messages of the checks that ran and failed, in the order format,
\* tidy, forbidden
FailedTexts ==
    (IF FormatFailed THEN <<"Style error (clang format)">> ELSE <<>>)
    \o (IF TidyFailed THEN <<"Style error (clang tidy)">> ELSE <<>>)
    \o (IF ForbiddenFailed THEN <<"Using of prohibited features">> ELSE <<>>)

\* one aggregated failure: a lone entry bare, several entries numbered from 1
Aggregated(o, texts) ==
    IF texts = <<>> THEN o.kind = "return"
    ELSE /\ o.kind = "RunFailedError"
         /\ o.entries = IF Len(texts) = 1 THEN <<[text |-> texts[1]]>>
                        ELSE [i \in 1..Len(texts) |-> [number |-> i, text |-> texts[i]]]

\* each check is called at most once, in the order format, tidy, forbidden
InCheckOrder(log) ==
    /\ \A c \in StaticCmds : Cardinality(Events(log, c)) <= 1
    /\ \A i \in Events(log, "run-clang-format"), j \in Events(log, "clang-tidy"),
          k \in Events(log, "check_forbidden") : i < j /\ j < k
    /\ \A i \in Events(log, "run-clang-format"),
          k \in Events(log, "check_forbidden") : i < k

\* C13 as stated: once every binary has built, all three static checks are
\* attempted, and the failing ones are raised as one aggregated failure.
C13_Original ==
    (BenchBuilt /\ Checked) =>
        /\ \A c \in StaticCmds : Events(last.log, c) # {}
        /\ Aggregated(last.outcome, FailedTexts)

\* C13, amended: once every binary has built, the format check is attempted,
\* the lint check is attempted iff allow_change matched a file and nolint is
\* unset, the forbidden scan is attempted iff allow_change matched a file,
\* whatever the earlier checks found; each failing check contributes exactly
\* one entry, in the order format, lint, forbidden, and gen_build raises one
\* aggregated RunFailedError iff at least one check failed, its entries
\* numbered only when there is more than one.
C13_Aggregation ==
    (BenchBuilt /\ Checked) =>
        /\ Events(last.log, "run-clang-format") # {}
        /\ Events(last.log, "clang-tidy") # {}
              <=> (submission.tools.matched /\ ~args.nolint)
        /\ Events(last.log, "check_forbidden") # {} <=> submission.tools.matched
        /\ InCheckOrder(last.log)
        /\ Aggregated(last.outcome, FailedTexts)

C13_Witness ==
    /\ BenchBuilt
    /\ FormatFailed /\ TidyFailed /\ ~ForbiddenFailed
    /\ Events(last.log, "check_forbidden") # {}
    /\ last.outcome.kind = "RunFailedError"
    /\ last.outcome.entries = <<FormatEntry(1), TidyEntry(2)>>

\* C16: in gen_build of the bench mode the binaries are built in the order
\* of tests, each in the build directory of its variant; a build that fails
\* raises BuildFailedError naming that binary, no later binary is built and
\* no static check is run; the static checks start after the last build.
C16_BuildOrder ==
    BenchBuilt =>
        LET builds == Events(last.log, "ninja")
            n == Cardinality(builds)
            failed == submission.tools.failed_build
            first == CHOOSE k \in builds : \A j \in builds : k <= j
        IN  /\ n >= 1
            /\ builds = first..(first + n - 1)
            /\ \A k \in 1..n :
                  /\ last.log[first + k - 1].binary = args.tests[k][1]
                  /\ \E root \in strategy.parts[1].reference_root :
                        last.log[first + k - 1].cwd
                        = root \o <<"build", Lower(args.tests[k][2])>>
            /\ IF failed # 0
               THEN /\ n = failed
                    /\ last.outcome.kind = "BuildFailedError"
                    /\ last.outcome.binary = args.tests[failed][1]
                    /\ \A c \in StaticCmds : Events(last.log, c) = {}
               ELSE /\ n = Len(args.tests)
                    /\ last.outcome.kind # "BuildFailedError"
                    /\ \A c \in StaticCmds : \A k \in Events(last.log, c) :
                          k > first + n - 1

C16_Witness ==
    /\ BenchBuilt
    /\ args.tests = <<<<"test_x", "ASAN">>, <<"bench_x", "RelWithDebInfo">>>>
    /\ submission.tools.failed_build = 1
    /\ Cardinality(Events(last.log, "ninja")) = 1
    /\ last.outcome = BuildFailedError("test_x")

\* the files of the task directory that allow_change matched, and those the
\* default lint_files match
Changed == IF submission.tools.matched THEN {"solution.cpp"} ELSE {}

Linted == Changed \cup (IF submission.tools.headers THEN {"solution.h"} ELSE {})

\* every call of the command in the log was given exactly these files
Over(log, cmd, files) ==
    \A k \in Events(log, cmd) :
        Range(log[k].files) = files /\ Len(log[k].files) = Cardinality(files)

\* the flags are the forbidden rules, each after -f, then the forbidden
\* files, each after -ff
RulesAsFlags(flags) ==
    LET nf == Len(args.forbidden)
        nff == Len(args.forbidden_files)
    IN  /\ Len(flags) = 2 * (nf + nff)
        /\ \A i \in 1..nf :
              flags[2 * i - 1] = "-f" /\ flags[2 * i] = args.forbidden[i]
        /\ \A i \in 1..nff :
              /\ flags[2 * nf + 2 * i - 1] = "-ff"
              /\ flags[2 * nf + 2 * i] = args.forbidden_files[i]

----------------------------------------------------------------------------
(* The composite build: C14 *)

\* C14: a composite gen_build calls gen_build of its constituents in list
\* order, the list being the modes in the order task_type names them; the
\* first constituent that raises ends the call with its failure, unchanged,
\* and no later constituent is called.
C14_ComposeBuildOrder ==
    (last.op = "gen_build" /\ strategy.compose) =>
        LET calls == Calls(last.log)
            n == Len(calls)
        IN  /\ Len(strategy.parts) = Len(Names)
            /\ \A j \in 1..Len(Names) : <<strategy.parts[j].kind>> = Names[j]
            /\ n >= 1
            /\ \A j \in 1..n : calls[j].index = j
            /\ \A j \in 1..(n - 1) : calls[j].outcome.kind = "return"
            /\ IF Raised(calls[n].outcome)
               THEN last.outcome = calls[n].outcome
               ELSE n = Len(strategy.parts) /\ last.outcome.kind = "return"
            /\ Called(last.log, "bench") = {} => Events(last.log, "ninja") = {}
            /\ Cardinality(Events(last.log, "copy_files"))
               = Cardinality(Called(last.log, "bench"))

C14_Witness ==
    /\ last.op = "gen_build"
    /\ strategy.compose
    /\ Names = <<<<"bench">>, <<"flag">>>>
    /\ submission.flag_txt # {}
    /\ Len(Calls(last.log)) = 1
    /\ last.outcome.kind = "RunFailedError"
    /\ last.outcome.entries = <<[text |-> "Style error (clang format)"]>>
    /\ strategy.parts[2].flag = {}

----------------------------------------------------------------------------
(* The state a strategy keeps between calls: C17, C18 *)

SameShape ==
    /\ strategy'.compose = strategy.compose
    /\ Len(strategy'.parts) = Len(strategy.parts)
    /\ \A i \in 1..Len(strategy.parts) : strategy'.parts[i].kind = strategy.parts[i].kind

\* C17 as stated: the workspace root of the bench mode is the only field a
\* gen_build writes; a gen_build leaves every constituent that is not a bench
\* strategy as it was.
C17_Original ==
    [][GenBuildStep =>
        \A i \in 1..Len(strategy.parts) :
            strategy.parts[i].kind # "bench" => strategy'.parts[i] = strategy.parts[i]]_vars

\* C17, amended: two fields are carried from one call to the next, the
\* workspace root of a bench strategy and the flag of a flag strategy; both
\* are written by gen_build only, each by the gen_build of its own strategy
\* when that constituent is called; a bench strategy never holds a flag, a
\* flag strategy never holds a workspace root, and a composite keeps nothing
\* but its list of constituents, which never changes.
C17_CrossCallState ==
    [][pc = "ready" =>
        /\ SameShape
        /\ ~GenBuildStep => strategy' = strategy
        /\ \A i \in 1..Len(strategy.parts) :
              /\ strategy.parts[i].kind = "bench" =>
                    /\ strategy'.parts[i].flag = {}
                    /\ strategy'.parts[i].reference_root # strategy.parts[i].reference_root
                          => i \in Called(last'.log, "bench")
              /\ strategy.parts[i].kind = "flag" =>
                    /\ strategy'.parts[i].reference_root = {}
                    /\ strategy'.parts[i].flag # strategy.parts[i].flag
                          => i \in Called(last'.log, "flag")]_vars

C17_Witness ==
    /\ strategy.compose
    /\ Names = <<<<"bench">>, <<"flag">>>>
    /\ strategy.parts[1].reference_root = {<<"course">>}
    /\ strategy.parts[2].flag = {<<"a">>}
    /\ last.op = "run_tests"
    /\ FullyScored(last.outcome)

\* the position in the log of the marker of the j-th constituent call, 0 for
\* j = 0
Marker(log, j) ==
    IF j = 0 THEN 0
    ELSE CHOOSE k \in 1..Len(log) :
            IsCall(log[k]) /\ Cardinality({m \in 1..k : IsCall(log[m])}) = j

\* the executions the j-th constituent call made
RunsOf(log, j) ==
    {k \in (Marker(log, j - 1) + 1)..(Marker(log, j) - 1) : log[k].cmd = "run"}

Recoverable == {"TestsFailedError", "RunFailedError", "BuildFailedError"}

\* what a run_tests call of a constituent does with the state of its instance
UsesStored(part, log, j) ==
    LET o == Calls(log)[j].outcome
    IN  IF part.kind = "flag"
        THEN IF part.flag = {}
             THEN o.kind \notin Recoverable \cup {"score"}
             ELSE \A v \in part.flag :
                    IF v = args.answer THEN FullyScored(o)
                    ELSE o.kind = "TestsFailedError" /\ o.text = "Wrong flag" /\ o.flag = v
        ELSE IF part.reference_root = {}
             THEN o.kind \notin Recoverable \cup {"score"} /\ RunsOf(log, j) = {}
             ELSE \A root \in part.reference_root : \A k \in RunsOf(log, j) :
                    SubSeq(log[k].cwd, 1, Len(root)) = root

\* a gen_build call of a bench constituent stores the root it copied into
StoresRoot(part, log, j) ==
    part.kind = "bench" =>
        \E k \in (Marker(log, j - 1) + 1)..(Marker(log, j) - 1) :
            /\ log[k].cmd = "copy_files"
            /\ part.reference_root = {Parent(log[k].target)}

\* C18: a run_tests of a strategy instance whose gen_build has not stored its
\* state (the flag, the workspace root) returns no score and raises none of
\* TestsFailedError, RunFailedError, BuildFailedError, and executes nothing;
\* once the state is stored, run_tests uses the state the most recent
\* gen_build stored in that instance: the flag it compares with the answer,
\* the root it executes the binaries under.
C18_BuildBeforeRun ==
    [][/\ RunTestsStep =>
             \A j \in 1..Len(Calls(last'.log)) :
                 UsesStored(strategy.parts[Calls(last'.log)[j].index], last'.log, j)
       /\ GenBuildStep =>
             \A j \in 1..Len(Calls(last'.log)) :
                 StoresRoot(strategy'.parts[Calls(last'.log)[j].index], last'.log, j)]_vars

C18_Witness ==
    /\ SingleFlag
    /\ submission.flag_txt # {}
    /\ strategy.parts[1].flag = {}
    /\ last.op = "run_tests"
    /\ last.outcome = AttributeError("flag")

----------------------------------------------------------------------------
(* The benchmark report: C19 *)

\* the identifier of the last execution of a relwithdebinfo binary
LastRel(log) ==
    LET rel == {k \in 1..Len(args.tests) : Lower(args.tests[k][2]) = "relwithdebinfo"}
    IN  IF rel = {} THEN {}
        ELSE {Runs(log)[CHOOSE k \in rel : \A j \in rel : j <= k].r}

\* C19: when thresholds are configured and every binary executed
\* successfully, a missing report (no entry of tests is a relwithdebinfo one,
\* or that run left no report) makes run_tests raise the "cannot find"
\* RunFailedError and nothing else, and a report that is read is the one of
\* the last relwithdebinfo execution.
C19_MissingReport ==
    (BenchTested /\ DOMAIN args.bench # {} /\ AllExecuted(last.log)) =>
        /\ (LastRel(last.log) = {} \/ submission.report = {}) => CannotFind(last.outcome)
        /\ \A k \in 1..Len(Parses(last.log)) :
              LastRel(last.log) = {Parses(last.log)[k].path.r}

====
